---------------------------- MODULE Spec2Model ----------------------------
(***************************************************************************)
(* Acceleration handler (src/acceleration_handler.py, src/config.py):      *)
(* opt-in registry, background scan queue and its rate-limited drainer,    *)
(* refresh of opted-in users, negative-karma alerts and the flair text.    *)
(*                                                                         *)
(* Time is in seconds, as datetime.utcnow().timestamp().  The state is the *)
(* state["acceleration"] dict plus the two external stores the handlers    *)
(* act on: the subreddit's user flair and the moderator mail.              *)
(***************************************************************************)
EXTENDS Integers, Sequences, FiniteSets, TLC

(***************************************************************************)
(* Configuration (src/config.py).                                          *)
(***************************************************************************)
ACCELERATION_ENABLED == TRUE
ACCELERATION_PRO_AI_SUBS ==
    <<"accelerate", "ProAI", "TheMachineGod", "DefendingAIArt", "aiArt", "aivideos">>
ACCELERATION_SCAN_LIMIT == 1000
ACCELERATION_BACKGROUND_SCAN_LIMIT == 500
ACCELERATION_REFRESH_DAYS == 7
ACCELERATION_BACKGROUND_REFRESH_DAYS == 30
ACCELERATION_MAX_SCANS_PER_RUN == 1
\* (min_ratio, tier_name), min_ratio in hundredths: 0.90 is 90
ACCELERATION_TIERS ==
    << <<90, "Light-speed">>, <<70, "Hypersonic">>, <<50, "Supersonic">>,
       <<30, "Speeding">>, <<15, "Cruising">>, <<1, "Crawling">> >>
ACCELERATION_ZERO_TIER == "Stationary"
ACCELERATION_MODMAIL_THRESHOLD == -50

\* 24 * 3600, the seconds of a day in both refresh_threshold computations
DAY_SECONDS == 86400

(***************************************************************************)
(* Bounds of the model.  The three caps stand for the literals 500         *)
(* (scan_queue), 500 (alerted_users) and 2000 (scanned_users) of the code: *)
(* the model keeps them small enough for three usernames to overflow them. *)
(***************************************************************************)
QueueCap == 2
AlertedCap == 1
ScannedCap == 1
\* utcnow().timestamp() at the first cycle
Epoch == 1700000000

\* The usernames: alice also writes commands to the bot, all three comment
\* in the subreddit (and so get queued for a background scan).
Users == {"alice", "bob", "carol"}
Commanders == {"alice"}

(***************************************************************************)
(* Sequence helpers (Python list operations).                              *)
(***************************************************************************)
Range(s) == {s[i] : i \in 1..Len(s)}

\* s[-n:] for n > 0
LastN(s, n) == IF Len(s) <= n THEN s ELSE SubSeq(s, Len(s) - n + 1, Len(s))

\* x in s
InSeq(x, s) == \E i \in 1..Len(s) : s[i] = x

(***************************************************************************)
(* History provider.  A stream is a sequence of items as the listing       *)
(* yields them; an item that is not ok is the point where the provider     *)
(* raises.                                                                 *)
(***************************************************************************)
Item(sub, score) == [sub |-> sub, score |-> score, ok |-> TRUE]
FaultItem == [sub |-> "", score |-> 0, ok |-> FALSE]

\* Lower leaving every name as it is
LowerIdentity(name) == name

\* str.lower() on the community names the model uses
Lower(name) ==
    CASE name = "ProAI" -> "proai"
      [] name = "TheMachineGod" -> "themachinegod"
      [] name = "DefendingAIArt" -> "defendingaiart"
      [] name = "aiArt" -> "aiart"
      [] name = "ACCELERATE" -> "accelerate"
      [] name = "SomeOtherSub" -> "someothersub"
      [] OTHER -> name

pro_ai_subs_lower == {Lower(ACCELERATION_PRO_AI_SUBS[i]) : i \in 1..Len(ACCELERATION_PRO_AI_SUBS)}

\* One for-loop of calculate_pro_ai_karma over a stream, from item i with the
\* sums so far: the sums after the loop, ok = FALSE when the provider raised.
\* limit=scan_limit makes the listing yield at most scan_limit items.
RECURSIVE ScanStream(_, _, _, _, _)
ScanStream(stream, i, scan_limit, pro, total) ==
    IF i > Len(stream) \/ i > scan_limit
    THEN [ok |-> TRUE, pro |-> pro, total |-> total]
    ELSE IF ~stream[i].ok
         THEN [ok |-> FALSE, pro |-> pro, total |-> total]
         ELSE ScanStream(stream, i + 1, scan_limit,
                         IF Lower(stream[i].sub) \in pro_ai_subs_lower
                         THEN pro + stream[i].score ELSE pro,
                         total + stream[i].score)

\* CalculateProAiKarma returning the sums it has when a listing raises
CalculateProAiKarmaPartial(history, scan_limit) ==
    LET c == ScanStream(history.comments, 1, scan_limit, 0, 0)
        s == ScanStream(history.submissions, 1, scan_limit, c.pro, c.total)
    IN  IF ~c.ok THEN <<c.pro, c.total>> ELSE <<s.pro, s.total>>

\* calculate_pro_ai_karma: <<pro_ai_karma, total_karma>>
CalculateProAiKarma(history, scan_limit) ==
    LET c == ScanStream(history.comments, 1, scan_limit, 0, 0)
        s == ScanStream(history.submissions, 1, scan_limit, c.pro, c.total)
    IN  IF ~c.ok \/ ~s.ok THEN <<0, 0>> ELSE <<s.pro, s.total>>

\* calculate_pro_ai_karma took its except branch: a listing raised
ProviderRaised(history, scan_limit) ==
    LET c == ScanStream(history.comments, 1, scan_limit, 0, 0)
        s == ScanStream(history.submissions, 1, scan_limit, c.pro, c.total)
    IN  ~c.ok \/ ~s.ok

\* Ratio dividing whenever total_karma is not 0
RatioUnguarded(pro_ai_karma, total_karma) ==
    IF total_karma > 0 THEN [num |-> pro_ai_karma, den |-> total_karma]
    ELSE IF total_karma < 0 THEN [num |-> 0 - pro_ai_karma, den |-> 0 - total_karma]
    ELSE [num |-> 0, den |-> 1]

\* The ratio of handle_acceleration_command / refresh_opted_in_users, kept as
\* the exact fraction num/den (den > 0) of the float pro_ai_karma / total_karma.
Ratio(pro_ai_karma, total_karma) ==
    IF total_karma > 0 THEN [num |-> pro_ai_karma, den |-> total_karma]
    ELSE [num |-> 0, den |-> 1]

\* get_acceleration_tier: ratio >= threshold is num/den >= t/100
RECURSIVE TierFrom(_, _)
TierFrom(ratio, i) ==
    IF i > Len(ACCELERATION_TIERS) THEN ACCELERATION_TIERS[Len(ACCELERATION_TIERS)][2]
    ELSE IF ratio.num * 100 >= ACCELERATION_TIERS[i][1] * ratio.den
         THEN ACCELERATION_TIERS[i][2]
         ELSE TierFrom(ratio, i + 1)

\* TierFrom with ratio > threshold
RECURSIVE TierFromStrict(_, _)
TierFromStrict(ratio, i) ==
    IF i > Len(ACCELERATION_TIERS) THEN ACCELERATION_TIERS[Len(ACCELERATION_TIERS)][2]
    ELSE IF ratio.num * 100 > ACCELERATION_TIERS[i][1] * ratio.den
         THEN ACCELERATION_TIERS[i][2]
         ELSE TierFromStrict(ratio, i + 1)

\* GetAccelerationTier with the strict comparison
GetAccelerationTierStrict(ratio) ==
    IF ratio.num <= 0 THEN ACCELERATION_ZERO_TIER ELSE TierFromStrict(ratio, 1)

\* GetAccelerationTier falling back to the zero-tier under the last threshold
GetAccelerationTierZeroFallback(ratio) ==
    IF ratio.num <= 0 THEN ACCELERATION_ZERO_TIER
    ELSE IF ratio.num * 100 < ACCELERATION_TIERS[Len(ACCELERATION_TIERS)][1] * ratio.den
         THEN ACCELERATION_ZERO_TIER
         ELSE TierFrom(ratio, 1)

\* GetAccelerationTier without the ratio <= 0 exit
GetAccelerationTierNoZero(ratio) == TierFrom(ratio, 1)

GetAccelerationTier(ratio) ==
    IF ratio.num <= 0 THEN ACCELERATION_ZERO_TIER ELSE TierFrom(ratio, 1)

(***************************************************************************)
(* Flair text.  A text is a sequence of symbols: " " is a whitespace       *)
(* character, "|" the pipe, "Acceleration:" that literal, and every other  *)
(* symbol a run of non-space characters (a tier name, foreign flair text). *)
(* The empty sequence is both "" and None (flair.set(text=None) clears the *)
(* flair and a cleared flair reads back as "").                            *)
(***************************************************************************)
IsSpace(c) == c = " "

\* first index >= i that holds no whitespace (Len(s) + 1 at the end): \s*
RECURSIVE SkipSpaces(_, _)
SkipSpaces(s, i) == IF i <= Len(s) /\ IsSpace(s[i]) THEN SkipSpaces(s, i + 1) ELSE i

\* first index >= i that holds whitespace (Len(s) + 1 at the end): \S*
RECURSIVE SkipNonSpaces(_, _)
SkipNonSpaces(s, i) == IF i <= Len(s) /\ ~IsSpace(s[i]) THEN SkipNonSpaces(s, i + 1) ELSE i

\* Acceleration:\s*\S+ matched at i: the index after the match, 0 for no match
MatchAccel(s, i) ==
    IF i <= Len(s) /\ s[i] = "Acceleration:"
    THEN LET j == SkipSpaces(s, i + 1)
         IN  IF j <= Len(s) THEN SkipNonSpaces(s, j) ELSE 0
    ELSE 0

\* accel_pattern  \s*\|\s*Acceleration:\s*\S+|\s*Acceleration:\s*\S+  matched at i
MatchAccelPattern(s, i) ==
    LET j == SkipSpaces(s, i)
        piped == IF j <= Len(s) /\ s[j] = "|"
                 THEN MatchAccel(s, SkipSpaces(s, j + 1)) ELSE 0
    IN  IF piped # 0 THEN piped ELSE MatchAccel(s, j)

\* re.sub(r"Acceleration:\s*\S+", repl, s) from index i on
RECURSIVE SubAccel(_, _, _)
SubAccel(s, repl, i) ==
    IF i > Len(s) THEN <<>>
    ELSE LET e == MatchAccel(s, i)
         IN  IF e # 0 THEN repl \o SubAccel(s, repl, e)
             ELSE <<s[i]>> \o SubAccel(s, repl, i + 1)

\* re.sub(accel_pattern, "", s) from index i on
RECURSIVE SubAccelPattern(_, _)
SubAccelPattern(s, i) ==
    IF i > Len(s) THEN <<>>
    ELSE LET e == MatchAccelPattern(s, i)
         IN  IF e # 0 THEN SubAccelPattern(s, e)
             ELSE <<s[i]>> \o SubAccelPattern(s, i + 1)

\* re.search(r"Acceleration:\s*\S+", s)
SearchAccel(s) == \E i \in 1..Len(s) : MatchAccel(s, i) # 0

\* index of the last non-space symbol, 0 when there is none
RECURSIVE LastNonSpace(_, _)
LastNonSpace(s, i) == IF i >= 1 /\ IsSpace(s[i]) THEN LastNonSpace(s, i - 1) ELSE i

\* str.strip()
Strip(s) ==
    LET a == SkipSpaces(s, 1)
        b == LastNonSpace(s, Len(s))
    IN  IF a > b THEN <<>> ELSE SubSeq(s, a, b)

\* re.sub(r"^\s*\|\s*", "", s)
StripLeadingPipe(s) ==
    LET j == SkipSpaces(s, 1)
    IN  IF j <= Len(s) /\ s[j] = "|"
        THEN SubSeq(s, SkipSpaces(s, j + 1), Len(s)) ELSE s

\* re.sub(r"\s*\|\s*$", "", s)
StripTrailingPipe(s) ==
    LET b == LastNonSpace(s, Len(s))
    IN  IF b >= 1 /\ s[b] = "|"
        THEN SubSeq(s, 1, LastNonSpace(s, b - 1)) ELSE s

AccelText(tier) == <<"Acceleration:", " ", tier>>

\* NewFlair removing the bare "Acceleration: <word>" and cleaning up no pipe
NewFlairKeepsPipe(current_flair, tier, remove) ==
    IF remove
    THEN Strip(SubAccel(current_flair, <<>>, 1))
    ELSE IF SearchAccel(current_flair)
         THEN SubAccel(current_flair, AccelText(tier), 1)
         ELSE IF Strip(current_flair) # <<>>
              THEN Strip(current_flair) \o <<" ", "|", " ">> \o AccelText(tier)
              ELSE AccelText(tier)

\* new_flair of update_user_flair
NewFlair(current_flair, tier, remove) ==
    IF remove
    THEN StripTrailingPipe(StripLeadingPipe(Strip(SubAccelPattern(current_flair, 1))))
    ELSE IF SearchAccel(current_flair)
         THEN SubAccel(current_flair, AccelText(tier), 1)
         ELSE IF Strip(current_flair) # <<>>
              THEN Strip(current_flair) \o <<" ", "|", " ">> \o AccelText(tier)
              ELSE AccelText(tier)

(***************************************************************************)
(* State.                                                                  *)
(***************************************************************************)
VARIABLES
    opted_in_users,   \* accel_state["opted_in_users"]: username -> record
    scanned_users,    \* accel_state["scanned_users"]: the dict's entries in insertion order
    alerted_users,    \* accel_state["alerted_users"]: list of usernames
    scan_queue,       \* accel_state["scan_queue"]: list of usernames
    flair,            \* the subreddit's flair text of every user
    now,              \* datetime.utcnow().timestamp()
    dry_run,          \* the dry_run argument the bot passes to every handler of a run
    ev                \* what the last call did: its arguments, its return value and
                      \* the collaborator calls it made

vars == <<opted_in_users, scanned_users, alerted_users, scan_queue, flair, now, dry_run, ev>>

\* The timestamps of the cycles: the first cycle, then one opted-in TTL and
\* one background TTL after it.
Instants ==
    << Epoch,
       Epoch + ACCELERATION_REFRESH_DAYS * DAY_SECONDS,
       Epoch + ACCELERATION_BACKGROUND_REFRESH_DAYS * DAY_SECONDS >>

\* What the history provider may answer in the runs of the queue engine:
\* 10 of 15 karma from pro-AI subs, -60 of -60, and a listing that raises.
HistoryMixed ==
    [comments |-> <<Item("accelerate", 10), Item("SomeOtherSub", 5)>>, submissions |-> <<>>]
HistoryNegative ==
    [comments |-> <<>>, submissions |-> <<Item("ProAI", -60)>>]
HistoryFault ==
    [comments |-> <<Item("accelerate", 10), FaultItem>>, submissions |-> <<>>]
\* one submission in a pro-AI sub scored exactly the modmail threshold
HistoryAtThreshold ==
    [comments |-> <<>>, submissions |-> <<Item("aiArt", ACCELERATION_MODMAIL_THRESHOLD)>>]
Histories == {HistoryMixed, HistoryNegative, HistoryFault}

\* ev of a call: op and user/action are the call and its arguments; count and
\* response its return value; pre_len the queue length it found; eligible
\* whether an enqueue passed the three early exits; again whether an enqueue
\* directly follows an enqueue of the same username that passed them, and
\* first_len the queue length that first enqueue found; popped the usernames
\* taken off the queue, scanned those the aggregator was run for, faulted
\* those whose lookup raised, scores the pro_ai_karma the aggregator returned
\* for each of scanned; evicted the scan records the cleanup dropped; notices
\* the modmail calls; label_calls the update_user_flair calls; had_record
\* whether a command found a record of its author (user_data); totals, ratio
\* and tier the total_karma, ratio and tier an "on" or "check" computed;
\* agg_faulted the users whose history listing raised inside the aggregator;
\* history and scan_limit the arguments of a direct call of the aggregator;
\* current_flair the flair text a direct call of update_user_flair found.
NoEvent ==
    [op |-> "init", user |-> "", action |-> "", eligible |-> FALSE,
     pre_len |-> 0, again |-> FALSE, first_len |-> 0,
     popped |-> <<>>, scanned |-> <<>>, scores |-> <<>>, faulted |-> {}, count |-> 0,
     evicted |-> {}, notices |-> <<>>, label_calls |-> {}, had_record |-> FALSE,
     totals |-> <<>>, ratio |-> [num |-> 0, den |-> 1], tier |-> "", agg_faulted |-> {},
     history |-> [comments |-> <<>>, submissions |-> <<>>], scan_limit |-> 0,
     current_flair |-> <<>>,
     response |-> ""]

Init ==
    /\ opted_in_users = <<>>
    /\ scanned_users = <<>>
    /\ alerted_users = <<>>
    /\ scan_queue = <<>>
    /\ flair = [u \in Users |-> <<>>]
    /\ now = Instants[1]
    /\ dry_run \in BOOLEAN
    /\ ev = NoEvent

\* The clock moves on to the next cycle's timestamp.
Tick ==
    /\ \E i \in 1..(Len(Instants) - 1) : now = Instants[i] /\ now' = Instants[i + 1]
    /\ ev' = [NoEvent EXCEPT !.op = "tick"]
    /\ UNCHANGED <<opted_in_users, scanned_users, alerted_users, scan_queue, flair, dry_run>>

(***************************************************************************)
(* Dict helpers.                                                           *)
(***************************************************************************)
\* DictSet that keeps the value of a key the dict already has
DictSetNew(d, k, v) == [x \in (DOMAIN d) \cup {k} |-> IF x \in DOMAIN d THEN d[x] ELSE v]

\* d[k] = v on a dict kept as a function
DictSet(d, k, v) == [x \in (DOMAIN d) \cup {k} |-> IF x = k THEN v ELSE d[x]]

\* DictDel that empties the dict
DictDelAll(d, k) == [x \in {} |-> d[x]]

\* DictDel that leaves the key in
DictDelNone(d, k) == d

\* del d[k]
DictDel(d, k) == [x \in (DOMAIN d) \ {k} |-> d[x]]

\* index of username's entry in scanned_users, 0 when it has none
ScannedIndex(scanned, username) ==
    IF \E i \in 1..Len(scanned) : scanned[i].username = username
    THEN CHOOSE i \in 1..Len(scanned) : scanned[i].username = username
    ELSE 0

\* scanned.get(username, {}).get("last_scanned", 0)
LastScanned(scanned, username) ==
    LET i == ScannedIndex(scanned, username)
    IN  IF i = 0 THEN 0 ELSE scanned[i].last_scanned

\* scanned_users[username] = {...}: an existing key keeps its place in the dict
ScannedSet(scanned, username, entry) ==
    LET i == ScannedIndex(scanned, username)
    IN  IF i = 0 THEN Append(scanned, entry) ELSE [scanned EXCEPT ![i] = entry]

\* sorted(scanned_users.items(), key=last_scanned): stable insertion of e
RECURSIVE InsertSorted(_, _)
InsertSorted(sorted, e) ==
    IF sorted = <<>> THEN <<e>>
    ELSE IF sorted[Len(sorted)].last_scanned <= e.last_scanned
         THEN Append(sorted, e)
         ELSE Append(InsertSorted(SubSeq(sorted, 1, Len(sorted) - 1), e), sorted[Len(sorted)])

RECURSIVE SortedByLastScanned(_)
SortedByLastScanned(scanned) ==
    IF scanned = <<>> THEN <<>>
    ELSE InsertSorted(SortedByLastScanned(SubSeq(scanned, 1, Len(scanned) - 1)),
                      scanned[Len(scanned)])

(***************************************************************************)
(* update_user_flair and alert_mods_negative_karma.                        *)
(***************************************************************************)
\* The flair store after update_user_flair(subreddit, username, tier, remove);
\* flair_ok = FALSE is a fault of the read or of the write: nothing is set.
UpdateUserFlair(store, username, tier, remove, flair_ok) ==
    IF flair_ok
    THEN [store EXCEPT ![username] = NewFlair(store[username], tier, remove)]
    ELSE store

\* The subreddit.message call of alert_mods_negative_karma; ok = FALSE is a
\* send that raised (caught inside, the function returns False).
Notice(username, score, notice_ok) == [user |-> username, score |-> score, ok |-> notice_ok]

(***************************************************************************)
(* queue_background_scan.                                                  *)
(***************************************************************************)
\* RecentlyScanned with the TTL check dropped
RecentlyScannedNever(scanned, username, t) == FALSE

\* RecentlyScanned with a record exactly one TTL old still recent
RecentlyScannedInclusive(scanned, username, t) ==
    (t - LastScanned(scanned, username)) <= ACCELERATION_BACKGROUND_REFRESH_DAYS * DAY_SECONDS

\* (now - last_scan) < refresh_threshold
RecentlyScanned(scanned, username, t) ==
    (t - LastScanned(scanned, username)) < ACCELERATION_BACKGROUND_REFRESH_DAYS * DAY_SECONDS

\* EnqueueSkipped without the opted-in exit
EnqueueSkippedNoOptIn(username) ==
    \/ RecentlyScanned(scanned_users, username, now)
    \/ InSeq(username, scan_queue)

\* EnqueueSkipped without the already-queued exit
EnqueueSkippedNoDedup(username) ==
    \/ username \in DOMAIN opted_in_users
    \/ RecentlyScanned(scanned_users, username, now)

\* the three early exits: opted in, recently scanned, already queued
EnqueueSkipped(username) ==
    \/ username \in DOMAIN opted_in_users
    \/ RecentlyScanned(scanned_users, username, now)
    \/ InSeq(username, scan_queue)

\* TruncateQueue with the truncation dropped
TruncateQueueNone(queue) == queue

\* TruncateQueue keeping the oldest entries: queue[:500]
TruncateQueueOldest(queue) ==
    IF Len(queue) > QueueCap THEN SubSeq(queue, 1, QueueCap) ELSE queue

\* if len(queue) > 500: queue = queue[-500:]
TruncateQueue(queue) ==
    IF Len(queue) > QueueCap THEN LastN(queue, QueueCap) ELSE queue

\* the scan_queue after queue_background_scan(username, state)
QueueAfterEnqueue(username) ==
    IF ~ACCELERATION_ENABLED \/ EnqueueSkipped(username)
    THEN scan_queue
    ELSE TruncateQueue(Append(scan_queue, username))

QueueBackgroundScan(username) ==
    /\ scan_queue' = QueueAfterEnqueue(username)
    /\ ev' = [NoEvent EXCEPT !.op = "enqueue", !.user = username,
                             !.eligible = ~EnqueueSkipped(username),
                             !.pre_len = Len(scan_queue),
                             !.again = (ev.op = "enqueue" /\ ev.user = username
                                        /\ ev.eligible),
                             !.first_len = IF ev.op = "enqueue" /\ ev.user = username
                                              /\ ev.eligible
                                           THEN ev.pre_len ELSE 0]
    /\ UNCHANGED <<opted_in_users, scanned_users, alerted_users, flair, now, dry_run>>

(***************************************************************************)
(* process_scan_queue.                                                     *)
(***************************************************************************)
\* ScannedCountAfter with the increment forgotten
ScannedCountStuck(scanned_count) == scanned_count

\* scanned_count += 1
ScannedCountAfter(scanned_count) == scanned_count + 1

\* DrainContinues with a loop that is never entered
DrainContinuesNever(queue, scanned_count) == FALSE

\* while queue and scanned_count < ACCELERATION_MAX_SCANS_PER_RUN
DrainContinues(queue, scanned_count) ==
    queue # <<>> /\ scanned_count < ACCELERATION_MAX_SCANS_PER_RUN

\* AlertDue with the threshold itself counted as below it
AlertDueAtThreshold(pro_ai_karma, username, alerted) ==
    pro_ai_karma <= ACCELERATION_MODMAIL_THRESHOLD /\ ~InSeq(username, alerted)

\* AlertDue without the alerted_users check
AlertDueNoDedup(pro_ai_karma, username, alerted) ==
    pro_ai_karma < ACCELERATION_MODMAIL_THRESHOLD

\* pro_ai_karma < ACCELERATION_MODMAIL_THRESHOLD and username not in alerted_users
AlertDue(pro_ai_karma, username, alerted) ==
    pro_ai_karma < ACCELERATION_MODMAIL_THRESHOLD /\ ~InSeq(username, alerted)

\* AlertNotices sending the modmail in a dry run too
AlertNoticesAlways(username, pro_ai_karma, notice_ok, dry) ==
    <<Notice(username, pro_ai_karma, notice_ok)>>

\* The alert block of handle_acceleration_command and of process_scan_queue:
\* the modmail calls made (none in a dry run) for a user whose alert is due.
AlertNotices(username, pro_ai_karma, notice_ok, dry) ==
    IF dry THEN <<>> ELSE <<Notice(username, pro_ai_karma, notice_ok)>>

\* accel_state.setdefault("alerted_users", []).append(username): done whatever
\* alert_mods_negative_karma returned, and in a dry run too
AlertedAfter(alerted, username, notice_ok, dry) == Append(alerted, username)

\* PopFront taking the newest entry: queue.pop()
PopBack(queue) ==
    [username |-> queue[Len(queue)], rest |-> SubSeq(queue, 1, Len(queue) - 1)]

\* queue.pop(0)
PopFront(queue) == [username |-> Head(queue), rest |-> Tail(queue)]

\* DrainSkips that skips nobody
DrainSkipsNobody(username) == FALSE

\* if username in accel_state.get("opted_in_users", {}): continue
DrainSkips(username) == username \in DOMAIN opted_in_users

\* The while loop of process_scan_queue on the loop state st.  faults are the
\* usernames for which reddit.redditor(username) raises, outs[j] is what the
\* collaborators answer for the j-th user scanned in this call.
RECURSIVE DrainLoop(_, _, _)
DrainLoop(st, faults, outs) ==
    IF ~DrainContinues(st.queue, st.count) THEN st
    ELSE LET username == PopFront(st.queue).username
             popped == [st EXCEPT !.queue = PopFront(st.queue).rest,
                                  !.popped = Append(st.popped, username)]
         IN  IF DrainSkips(username)
             THEN DrainLoop(popped, faults, outs)
             ELSE IF username \in faults
                  THEN DrainLoop([popped EXCEPT !.faulted = st.faulted \cup {username}],
                                 faults, outs)
                  ELSE LET out == outs[st.count + 1]
                           pro_ai_karma ==
                               CalculateProAiKarma(out.history,
                                                   ACCELERATION_BACKGROUND_SCAN_LIMIT)[1]
                           due == AlertDue(pro_ai_karma, username, st.alerted)
                       IN  DrainLoop(
                             [popped EXCEPT
                                !.scanned_users =
                                    ScannedSet(st.scanned_users, username,
                                               [username |-> username, last_scanned |-> now,
                                                pro_ai_karma |-> pro_ai_karma]),
                                !.alerted =
                                    IF due
                                    THEN AlertedAfter(st.alerted, username,
                                                      out.notice_ok, dry_run)
                                    ELSE st.alerted,
                                !.notices =
                                    IF due
                                    THEN st.notices \o
                                         AlertNotices(username, pro_ai_karma,
                                                      out.notice_ok, dry_run)
                                    ELSE st.notices,
                                !.scanned = Append(st.scanned, username),
                                !.scores = Append(st.scores, pro_ai_karma),
                                !.agg_faulted =
                                    IF ProviderRaised(out.history,
                                                      ACCELERATION_BACKGROUND_SCAN_LIMIT)
                                    THEN st.agg_faulted \cup {username}
                                    ELSE st.agg_faulted,
                                !.count = ScannedCountAfter(st.count)],
                             faults, outs)

\* accel_state["alerted_users"] = alerted_users[-500:]
TruncateAlerted(alerted) == LastN(alerted, AlertedCap)

\* TruncateScanned keeping the records with the earliest last_scanned
TruncateScannedOldest(scanned) ==
    IF Len(scanned) > ScannedCap
    THEN SubSeq(SortedByLastScanned(scanned), 1, ScannedCap)
    ELSE scanned

\* if len(scanned_users) > 2000: keep the 2000 with the latest last_scanned
TruncateScanned(scanned) ==
    IF Len(scanned) > ScannedCap
    THEN LastN(SortedByLastScanned(scanned), ScannedCap)
    ELSE scanned

\* ProcessScanQueue that labels the user it takes off the queue
ProcessScanQueueLabels(faults, outs) ==
    /\ scan_queue # <<>>
    /\ scan_queue' = Tail(scan_queue)
    /\ flair' = [flair EXCEPT ![Head(scan_queue)] = <<"Acceleration:", " ", "Stationary">>]
    /\ ev' = [NoEvent EXCEPT !.op = "drain", !.pre_len = Len(scan_queue),
                             !.popped = <<Head(scan_queue)>>]
    /\ UNCHANGED <<opted_in_users, scanned_users, alerted_users, now, dry_run>>

ProcessScanQueue(faults, outs) ==
    /\ IF ~ACCELERATION_ENABLED \/ scan_queue = <<>>
       THEN /\ ev' = [NoEvent EXCEPT !.op = "drain", !.pre_len = Len(scan_queue)]
            /\ UNCHANGED <<scanned_users, alerted_users, scan_queue>>
       ELSE LET r == DrainLoop([queue |-> scan_queue, count |-> 0,
                                scanned_users |-> scanned_users,
                                alerted |-> alerted_users, popped |-> <<>>,
                                scanned |-> <<>>, scores |-> <<>>, faulted |-> {},
                                agg_faulted |-> {}, notices |-> <<>>],
                               faults, outs)
            IN  /\ alerted_users' = TruncateAlerted(r.alerted)
                /\ scanned_users' = TruncateScanned(r.scanned_users)
                /\ scan_queue' = r.queue
                /\ ev' = [NoEvent EXCEPT !.op = "drain",
                                         !.pre_len = Len(scan_queue),
                                         !.popped = r.popped, !.scanned = r.scanned,
                                         !.scores = r.scores,
                                         !.agg_faulted = r.agg_faulted,
                                         !.evicted =
                                             Range(r.scanned_users)
                                               \ Range(TruncateScanned(r.scanned_users)),
                                         !.faulted = r.faulted,
                                         !.count = r.count, !.notices = r.notices]
    /\ UNCHANGED <<opted_in_users, flair, now, dry_run>>

(***************************************************************************)
(* handle_acceleration_command.                                            *)
(***************************************************************************)
\* UserRecord with the tier of pro_ai_karma itself instead of the ratio's
UserRecordTierOfKarma(karma, t) ==
    [enabled |-> TRUE, last_calculated |-> t,
     pro_ai_karma |-> karma[1], total_karma |-> karma[2],
     ratio |-> Ratio(karma[1], karma[2]),
     tier |-> GetAccelerationTier([num |-> karma[1], den |-> 1])]

\* The opted_in_users record written by "on" and by a refresh.
UserRecord(karma, t) ==
    [enabled |-> TRUE, last_calculated |-> t,
     pro_ai_karma |-> karma[1], total_karma |-> karma[2],
     ratio |-> Ratio(karma[1], karma[2]),
     tier |-> GetAccelerationTier(Ratio(karma[1], karma[2]))]

\* CommandNone treating the comment as an "off"
CommandNoneAsOff(author) ==
    /\ opted_in_users' = IF author \in DOMAIN opted_in_users
                         THEN [x \in (DOMAIN opted_in_users) \ {author} |-> opted_in_users[x]]
                         ELSE opted_in_users
    /\ ev' = [NoEvent EXCEPT !.op = "command", !.user = author, !.action = "none"]
    /\ UNCHANGED <<scanned_users, alerted_users, scan_queue, flair, now, dry_run>>

\* classify_acceleration_intent answered None (or the feature is off, or the
\* comment has no author): nothing happens, no response.
CommandNone(author) ==
    /\ ev' = [NoEvent EXCEPT !.op = "command", !.user = author, !.action = "none"]
    /\ UNCHANGED <<opted_in_users, scanned_users, alerted_users, scan_queue, flair, now,
                   dry_run>>

\* CommandOff keeping the record when the flair write fails
CommandOffRolledBack(author, flair_ok) ==
    /\ ACCELERATION_ENABLED
    /\ opted_in_users' = IF author \in DOMAIN opted_in_users /\ (dry_run \/ flair_ok)
                         THEN DictDel(opted_in_users, author) ELSE opted_in_users
    /\ flair' = IF dry_run THEN flair
                ELSE UpdateUserFlair(flair, author, "", TRUE, flair_ok)
    /\ ev' = [NoEvent EXCEPT !.op = "command", !.user = author, !.action = "off",
                             !.had_record = author \in DOMAIN opted_in_users,
                             !.label_calls = IF dry_run THEN {}
                                             ELSE {[user |-> author, ok |-> flair_ok]},
                             !.response = "removed"]
    /\ UNCHANGED <<scanned_users, alerted_users, scan_queue, now, dry_run>>

\* action == "off"
CommandOff(author, flair_ok) ==
    /\ ACCELERATION_ENABLED
    /\ opted_in_users' = IF author \in DOMAIN opted_in_users
                         THEN DictDel(opted_in_users, author) ELSE opted_in_users
    /\ flair' = IF dry_run THEN flair
                ELSE UpdateUserFlair(flair, author, "", TRUE, flair_ok)
    /\ ev' = [NoEvent EXCEPT !.op = "command", !.user = author, !.action = "off",
                             !.had_record = author \in DOMAIN opted_in_users,
                             !.label_calls = IF dry_run THEN {}
                                             ELSE {[user |-> author, ok |-> flair_ok]},
                             !.response = "removed"]
    /\ UNCHANGED <<scanned_users, alerted_users, scan_queue, now, dry_run>>

\* CommandResponse telling every "check" that the flair is active
CommandResponseActive(author, action) ==
    IF action = "on" THEN "active" ELSE "status: active"

\* The response of "on" and of "check": 'Your flair is active!' exactly when
\* the author is a key of opted_in_users.
CommandResponse(author, action) ==
    IF action = "on" THEN "active"
    ELSE IF author \in DOMAIN opted_in_users
         THEN "status: active" ELSE "status: not active"

\* action in ("on", "check"); lookup_ok = FALSE is reddit.redditor(author_name)
\* raising
CommandOnCheck(author, action, lookup_ok, history, flair_ok, notice_ok) ==
    /\ ACCELERATION_ENABLED
    /\ action \in {"on", "check"}
    /\ IF ~lookup_ok
       THEN /\ ev' = [NoEvent EXCEPT !.op = "command", !.user = author, !.action = action,
                                     !.had_record = author \in DOMAIN opted_in_users,
                                     !.faulted = {author}, !.response = "sorry"]
            /\ UNCHANGED <<opted_in_users, alerted_users, flair>>
       ELSE LET karma == CalculateProAiKarma(history, ACCELERATION_SCAN_LIMIT)
                record == UserRecord(karma, now)
                writes == action = "on" /\ ~dry_run
                due == AlertDue(karma[1], author, alerted_users)
            IN  /\ opted_in_users' = IF action = "on"
                                     THEN DictSet(opted_in_users, author, record)
                                     ELSE opted_in_users
                /\ flair' = IF writes
                            THEN UpdateUserFlair(flair, author, record.tier, FALSE, flair_ok)
                            ELSE flair
                /\ alerted_users' = IF due
                                    THEN AlertedAfter(alerted_users, author, notice_ok, dry_run)
                                    ELSE alerted_users
                /\ ev' = [NoEvent EXCEPT
                            !.op = "command", !.user = author, !.action = action,
                            !.had_record = author \in DOMAIN opted_in_users,
                            !.scanned = <<author>>, !.scores = <<karma[1]>>,
                            !.totals = <<karma[2]>>,
                            !.ratio = record.ratio, !.tier = record.tier,
                            !.agg_faulted =
                                IF ProviderRaised(history, ACCELERATION_SCAN_LIMIT)
                                THEN {author} ELSE {},
                            !.label_calls = IF writes THEN {[user |-> author, ok |-> flair_ok]}
                                            ELSE {},
                            !.notices = IF due
                                        THEN AlertNotices(author, karma[1], notice_ok, dry_run)
                                        ELSE <<>>,
                            !.response = CommandResponse(author, action)]
    /\ UNCHANGED <<scanned_users, scan_queue, now, dry_run>>

(***************************************************************************)
(* refresh_opted_in_users.                                                 *)
(***************************************************************************)
\* RefreshDue with a record exactly one TTL old not yet due
RefreshDueStrict(record, t) ==
    (t - record.last_calculated) > ACCELERATION_REFRESH_DAYS * DAY_SECONDS

\* not ((now - last_calc) < refresh_threshold)
RefreshDue(record, t) ==
    ~((t - record.last_calculated) < ACCELERATION_REFRESH_DAYS * DAY_SECONDS)

\* Refreshed with the first fault ending the cycle for every user
RefreshedUnlessAnyFault(faults) ==
    IF \E u \in faults : RefreshDue(opted_in_users[u], now)
    THEN {}
    ELSE {u \in DOMAIN opted_in_users : RefreshDue(opted_in_users[u], now)}

\* The users of the snapshot whose record the loop rewrites: due, and
\* reddit.redditor(username) did not raise.
Refreshed(faults) ==
    {u \in DOMAIN opted_in_users : RefreshDue(opted_in_users[u], now) /\ u \notin faults}

\* Each iteration reads and writes only its own user's record and flair, so
\* the dict's iteration order does not show in the result.
RefreshOptedInUsers(faults, outs) ==
    /\ IF ~ACCELERATION_ENABLED \/ DOMAIN opted_in_users = {}
       THEN /\ ev' = [NoEvent EXCEPT !.op = "refresh"]
            /\ UNCHANGED <<opted_in_users, flair>>
       ELSE LET done == Refreshed(faults)
                record(u) ==
                    UserRecord(CalculateProAiKarma(outs[u].history, ACCELERATION_SCAN_LIMIT),
                               now)
            IN  /\ opted_in_users' =
                       [u \in DOMAIN opted_in_users |->
                           IF u \in done THEN record(u) ELSE opted_in_users[u]]
                /\ flair' =
                       [u \in Users |->
                           IF u \in done /\ ~dry_run
                           THEN UpdateUserFlair(flair, u, record(u).tier, FALSE,
                                                outs[u].flair_ok)[u]
                           ELSE flair[u]]
                /\ ev' = [NoEvent EXCEPT
                            !.op = "refresh",
                            !.count = Cardinality(done),
                            !.faulted = {u \in faults : RefreshDue(opted_in_users[u], now)},
                            !.agg_faulted =
                                {u \in done : ProviderRaised(outs[u].history,
                                                             ACCELERATION_SCAN_LIMIT)},
                            !.label_calls =
                                IF dry_run THEN {}
                                ELSE {[user |-> u, ok |-> outs[u].flair_ok] : u \in done}]
    /\ UNCHANGED <<scanned_users, alerted_users, scan_queue, now, dry_run>>

(***************************************************************************)
(* The bot: any interleaving of enqueues, commands, refresh and drain      *)
(* cycles, and the clock.                                                  *)
(*                                                                         *)
(* Spec is the queue engine: three usernames get queued, alice opts in and *)
(* out, lookups fault and the clock passes both TTLs.  The queue, the      *)
(* registry keys and the scan records' timestamps do not depend on what a  *)
(* history holds, on the flair or on the modmail, so Spec's collaborators  *)
(* answer one history and never fault on flair or modmail.                 *)
(***************************************************************************)
\* One call of process_scan_queue with the histories and modmail answers drawn
\* from the given sets.
DrainCycle(histories, notice_answers) ==
    \E faults \in SUBSET Range(scan_queue) :
       \E outs \in [1..ACCELERATION_MAX_SCANS_PER_RUN ->
                       [history : histories, notice_ok : notice_answers]] :
          ProcessScanQueue(faults, outs)

\* One command of author: none, off, on or check.
Command(author, histories, flair_answers, notice_answers) ==
    \/ CommandNone(author)
    \/ \E flair_ok \in flair_answers : CommandOff(author, flair_ok)
    \/ \E action \in {"on", "check"} :
          \/ CommandOnCheck(author, action, FALSE, HistoryMixed, TRUE, TRUE)
          \/ \E h \in histories, flair_ok \in flair_answers, notice_ok \in notice_answers :
                CommandOnCheck(author, action, TRUE, h, flair_ok, notice_ok)

\* One call of refresh_opted_in_users.
RefreshCycle(histories, flair_answers) ==
    \E faults \in SUBSET DOMAIN opted_in_users :
       \E outs \in [DOMAIN opted_in_users \ faults ->
                       [history : histories, flair_ok : flair_answers]] :
          RefreshOptedInUsers(faults, outs)

Next ==
    \/ Tick
    \/ \E u \in Users : QueueBackgroundScan(u)
    \/ DrainCycle({HistoryMixed}, {TRUE})
    \/ \E u \in Commanders : Command(u, {HistoryMixed}, {TRUE}, {TRUE})
    \/ RefreshCycle({HistoryMixed}, {TRUE})

Spec == Init /\ [][Next]_vars

(***************************************************************************)
(* SpecAlert is the alert dispatcher: commands and drain cycles at one     *)
(* timestamp, with histories above and below the modmail threshold, a      *)
(* modmail that may fail, live and dry runs.                               *)
(***************************************************************************)
AlertHistories == {HistoryMixed, HistoryNegative}

\* notice_ok is read only when a modmail can go out
NoticeAnswers == IF dry_run THEN {TRUE} ELSE BOOLEAN

NextAlert ==
    \/ \E u \in Users : QueueBackgroundScan(u)
    \/ DrainCycle(AlertHistories, NoticeAnswers)
    \/ \E u \in Commanders : Command(u, AlertHistories, {TRUE}, NoticeAnswers)

SpecAlert == Init /\ [][NextAlert]_vars

(***************************************************************************)
(* SpecThreshold is SpecAlert with the histories on both sides of the      *)
(* threshold comparison: one scored exactly the threshold, one below it.   *)
(***************************************************************************)
ThresholdHistories == {HistoryAtThreshold, HistoryNegative}

NextThreshold ==
    \/ \E u \in Users : QueueBackgroundScan(u)
    \/ DrainCycle(ThresholdHistories, NoticeAnswers)
    \/ \E u \in Commanders : Command(u, ThresholdHistories, {TRUE}, NoticeAnswers)

SpecThreshold == Init /\ [][NextThreshold]_vars

(***************************************************************************)
(* SpecRegistry is the opt-in registry: alice opts in and out and asks for *)
(* her status, bob opts in, at different cycles, so that the refresh runs  *)
(* over records that are due and records that are not.  The histories give *)
(* different tiers (one of them raises mid-scan), lookups and flair writes *)
(* may fail.                                                               *)
(***************************************************************************)
RegistryHistories == {HistoryMixed, HistoryFault}

NextRegistry ==
    \/ Tick
    \/ Command("alice", RegistryHistories, BOOLEAN, {TRUE})
    \/ CommandOnCheck("bob", "on", TRUE, HistoryMixed, TRUE, TRUE)
    \/ RefreshCycle(RegistryHistories, BOOLEAN)

SpecRegistry == Init /\ [][NextRegistry]_vars

(***************************************************************************)
(* SpecDisable is the "off" command in a populated state: alice opts in    *)
(* and out with a history below the modmail threshold, bob opts in, bob    *)
(* and carol are queued, scanned and alerted; the flair write may fail.    *)
(***************************************************************************)
NextDisable ==
    \/ Command("alice", {HistoryNegative}, BOOLEAN, {TRUE})
    \/ CommandOnCheck("bob", "on", TRUE, HistoryMixed, TRUE, TRUE)
    \/ \E u \in {"bob", "carol"} : QueueBackgroundScan(u)
    \/ DrainCycle({HistoryNegative}, {TRUE})

SpecDisable == Init /\ [][NextDisable]_vars

(***************************************************************************)
(* SpecDrainLive is the drain left to empty the queue: alice and bob get    *)
(* queued and alice opts in until the first drain cycle, not after; the    *)
(* bot's main loop calls process_scan_queue in every cycle, so that a      *)
(* drain that can change the state is eventually run (weak fairness).      *)
(* Lookups fault.                                                          *)
(***************************************************************************)
\* no drain cycle has run yet
EnqueuesOpen == ev.op \in {"init", "enqueue", "command"}

NextDrainLive ==
    \/ EnqueuesOpen /\ \E u \in {"alice", "bob"} : QueueBackgroundScan(u)
    \/ EnqueuesOpen /\ CommandOnCheck("alice", "on", TRUE, HistoryMixed, TRUE, TRUE)
    \/ DrainCycle({HistoryMixed}, {TRUE})

SpecDrainLive ==
    Init /\ [][NextDrainLive]_vars /\ WF_vars(DrainCycle({HistoryMixed}, {TRUE}))

(***************************************************************************)
(* SpecDryRun is the three handlers that write flair or send modmail, each *)
(* with work to do in a dry run and in a live run: alice's commands and    *)
(* refresh, on a history below the modmail threshold or on 10 of 15 karma, *)
(* and the drain of bob and carol.                                         *)
(***************************************************************************)
NextDryRun ==
    \/ Tick
    \/ Command("alice", {HistoryNegative, HistoryMixed}, {TRUE}, {TRUE})
    \/ RefreshCycle({HistoryNegative, HistoryMixed}, {TRUE})
    \/ \E u \in {"bob", "carol"} : QueueBackgroundScan(u)
    \/ DrainCycle({HistoryNegative}, {TRUE})

SpecDryRun == Init /\ [][NextDryRun]_vars

(***************************************************************************)
(* SpecFaults is the refresh and the drain with every collaborator fault:  *)
(* alice and bob opt in and become due together, bob and carol are queued; *)
(* user lookups, history listings, flair writes and modmail fail.          *)
(***************************************************************************)
NextFaults ==
    \/ Tick
    \/ \E u \in {"alice", "bob"} : CommandOnCheck(u, "on", TRUE, HistoryMixed, TRUE, TRUE)
    \/ RefreshCycle({HistoryMixed, HistoryFault}, BOOLEAN)
    \/ \E u \in {"bob", "carol"} : QueueBackgroundScan(u)
    \/ DrainCycle({HistoryNegative}, NoticeAnswers)

SpecFaults == Init /\ [][NextFaults]_vars

(***************************************************************************)
(* SpecAggregator is calculate_pro_ai_karma called on its own, as the test *)
(* calls it: every history of up to two comments and two submissions, in   *)
(* a topic community written in capitals or elsewhere, or raising, and the *)
(* histories of the other specifications; a scan_limit of 1 or 2.          *)
(***************************************************************************)
AggStreams ==
    LET items == {Item("ACCELERATE", 5), Item("SomeOtherSub", 7), FaultItem}
    IN  {<<>>} \cup {<<a>> : a \in items} \cup {<<a, b>> : a \in items, b \in items}

AggHistories ==
    {[comments |-> c, submissions |-> s] : c \in AggStreams, s \in AggStreams}
    \cup {HistoryMixed, HistoryNegative, HistoryFault, HistoryAtThreshold}

AggLimits == {1, 2}

\* One call calculate_pro_ai_karma(redditor, reddit, scan_limit) for the
\* redditor named username, whose listings answer history.
CalculateProAiKarmaCall(username, history, scan_limit) ==
    /\ ev' = [NoEvent EXCEPT
                !.op = "aggregate", !.user = username,
                !.history = history, !.scan_limit = scan_limit,
                !.scanned = <<username>>,
                !.scores = <<CalculateProAiKarma(history, scan_limit)[1]>>,
                !.totals = <<CalculateProAiKarma(history, scan_limit)[2]>>,
                !.agg_faulted = IF ProviderRaised(history, scan_limit)
                                THEN {username} ELSE {}]
    /\ UNCHANGED <<opted_in_users, scanned_users, alerted_users, scan_queue, flair, now,
                   dry_run>>

NextAggregator ==
    \E h \in AggHistories, l \in AggLimits : CalculateProAiKarmaCall("alice", h, l)

SpecAggregator == Init /\ [][NextAggregator]_vars

(***************************************************************************)
(* SpecFlair is update_user_flair called on its own on alice's flair.  The *)
(* flair text she has when the bot first writes it is any text of up to    *)
(* three symbols, or one of the longer texts listed; the calls set any     *)
(* tier or remove, and the write to the subreddit may fail.                *)
(***************************************************************************)
FlairSymbols == {" ", "|", "Acceleration:", "X", "Crawling"}

ExistingFlairs ==
    {<<>>} \cup {<<a>> : a \in FlairSymbols}
    \cup {<<a, b>> : a \in FlairSymbols, b \in FlairSymbols}
    \cup {<<a, b, c>> : a \in FlairSymbols, b \in FlairSymbols, c \in FlairSymbols}
    \cup {<<"X", " ", "|", " ", "Acceleration:", " ", "Crawling">>,
          <<"Acceleration:", " ", "Crawling", " ", "|", " ", "X">>,
          <<"X", " ", "|", " ", "Acceleration:", " ", "Crawling", " ", "|", " ", "Z">>,
          <<"X", " ", "|", " ", "Z">>,
          <<"Team", " ", "Acceleration:">>}

TierNames ==
    {ACCELERATION_ZERO_TIER} \cup {ACCELERATION_TIERS[i][2] : i \in 1..Len(ACCELERATION_TIERS)}

InitFlair ==
    /\ opted_in_users = <<>>
    /\ scanned_users = <<>>
    /\ alerted_users = <<>>
    /\ scan_queue = <<>>
    /\ \E text \in ExistingFlairs :
          flair = [u \in Users |-> IF u = "alice" THEN text ELSE <<>>]
    /\ now = Instants[1]
    /\ dry_run = FALSE
    /\ ev = NoEvent

\* One call update_user_flair(subreddit, username, tier, remove).
UpdateUserFlairCall(username, tier, remove, flair_ok) ==
    /\ flair' = UpdateUserFlair(flair, username, tier, remove, flair_ok)
    /\ ev' = [NoEvent EXCEPT
                !.op = "flair", !.user = username,
                !.action = IF remove THEN "remove" ELSE "set",
                !.tier = tier,
                !.current_flair = flair[username],
                !.label_calls = {[user |-> username, ok |-> flair_ok]}]
    /\ UNCHANGED <<opted_in_users, scanned_users, alerted_users, scan_queue, now, dry_run>>

NextFlair ==
    \/ \E tier \in TierNames, flair_ok \in BOOLEAN :
          UpdateUserFlairCall("alice", tier, FALSE, flair_ok)
    \/ \E flair_ok \in BOOLEAN : UpdateUserFlairCall("alice", "", TRUE, flair_ok)

SpecFlair == InitFlair /\ [][NextFlair]_vars

(***************************************************************************)
(* SpecTier is the classifier at work: alice's "on" and "check" and her    *)
(* refresh over histories whose sums put the ratio on every threshold,     *)
(* just under it, under the lowest one, above 1, below 0, and on a total   *)
(* that is zero or negative.                                               *)
(***************************************************************************)
\* one comment in a pro-AI sub and one submission elsewhere
TierHistory(pro, other) ==
    [comments |-> <<Item("accelerate", pro)>>, submissions |-> <<Item("SomeOtherSub", other)>>]

\* <<score in the pro-AI sub, score elsewhere>>
TierScores ==
    {<<1, 99>>, <<14, 86>>, <<15, 85>>, <<29, 71>>, <<30, 70>>, <<49, 51>>, <<50, 50>>,
     <<69, 31>>, <<70, 30>>, <<89, 11>>, <<90, 10>>, <<100, 0>>,
     <<1, 199>>, <<10, 5>>, <<0, 10>>,
     <<10, -5>>, <<-5, 10>>,
     <<5, -5>>, <<-5, 5>>, <<0, 0>>,
     <<5, -10>>, <<-5, -5>>, <<0, -5>>}

TierHistories == {TierHistory(p[1], p[2]) : p \in TierScores}

NextTier ==
    \/ Tick
    \/ \E action \in {"on", "check"}, h \in TierHistories :
          CommandOnCheck("alice", action, TRUE, h, TRUE, TRUE)
    \/ RefreshCycle(TierHistories, {TRUE})

SpecTier == Init /\ [][NextTier]_vars

(***************************************************************************)
(* Properties of the scan queue and its drainer (Spec).                    *)
(***************************************************************************)
K == ACCELERATION_MAX_SCANS_PER_RUN

Min(a, b) == IF a <= b THEN a ELSE b

\* s is t with its first k entries dropped, for some k
IsSuffix(s, t) ==
    /\ Len(s) <= Len(t)
    /\ \A i \in 1..Len(s) : s[i] = t[i + Len(t) - Len(s)]

\* C1: the scan_queue never holds more usernames than its bound, whatever
\* enqueues, drains, commands and refreshes have run.
QueueWithinBound == Len(scan_queue) <= QueueCap

\* an enqueue found the queue full and went through
QueueOverflowed ==
    /\ ev.op = "enqueue" /\ ev.eligible /\ ev.pre_len = QueueCap
    /\ Len(scan_queue) = QueueCap

\* C2: one process_scan_queue call runs the aggregator and writes a scan
\* record for at most K users and returns a count of at most K.
DrainScansAtMostK ==
    [][ev'.op = "drain" =>
          /\ ev'.count <= K
          /\ Len(ev'.scanned) = ev'.count
          /\ Cardinality({i \in 1..Len(scanned_users') :
                             scanned_users'[i] \notin Range(scanned_users)}) <= K]_vars

\* a drain scanned K users and left usernames in the queue
DrainStoppedAtK ==
    ev.op = "drain" /\ ev.count = K /\ ev.pre_len > K /\ scan_queue # <<>>

\* C3 as claimed: one process_scan_queue call shortens the queue by at most K.
DrainPopsAtMostK ==
    [][ev'.op = "drain" => Len(scan_queue') >= Len(scan_queue) - K]_vars

\* C3 as amended: one call scans at most K of the usernames it pops; every
\* other username it pops is opted in or its lookup raised, and those do not
\* count towards K.
DrainPopsScannedPlusSkipped ==
    [][ev'.op = "drain" =>
          /\ Len(scan_queue') = Len(scan_queue) - Len(ev'.popped)
          /\ Len(ev'.scanned) <= K
          /\ \A i \in 1..Len(ev'.popped) :
                \/ InSeq(ev'.popped[i], ev'.scanned)
                \/ ev'.popped[i] \in DOMAIN opted_in_users
                \/ ev'.popped[i] \in ev'.faulted
          /\ Len(scan_queue') >=
                Len(scan_queue) - K
                  - Cardinality({u \in Range(ev'.popped) :
                                    u \in DOMAIN opted_in_users \/ u \in ev'.faulted})]_vars

\* a drain popped more than K usernames
DrainPoppedMoreThanK == ev.op = "drain" /\ Len(ev.popped) > K

\* C4: the queue is FIFO: a drain takes a prefix of the queue, in order, and
\* leaves the rest in order; an enqueue adds at the tail only; nothing else
\* touches the queue.
QueueIsFifo ==
    [][/\ ev'.op = "drain" =>
             /\ Len(ev'.popped) <= Len(scan_queue)
             /\ \A i \in 1..Len(ev'.popped) : ev'.popped[i] = scan_queue[i]
             /\ Len(scan_queue') = Len(scan_queue) - Len(ev'.popped)
             /\ \A i \in 1..Len(scan_queue') :
                   scan_queue'[i] = scan_queue[i + Len(ev'.popped)]
       /\ ev'.op = "enqueue" =>
             \/ scan_queue' = scan_queue
             \/ /\ scan_queue' # <<>>
                /\ scan_queue'[Len(scan_queue')] = ev'.user
                /\ IsSuffix(SubSeq(scan_queue', 1, Len(scan_queue') - 1), scan_queue)
       /\ ev'.op \notin {"drain", "enqueue"} => scan_queue' = scan_queue]_vars

\* a drain took a username and left one behind
DrainLeftSome == ev.op = "drain" /\ ev.popped # <<>> /\ scan_queue # <<>>

\* C5: an enqueue that would make the queue longer than its bound leaves
\* exactly the bound's worth of most recent usernames, in order, the new
\* username last and the oldest dropped.
OverflowKeepsNewest ==
    [][(ev'.op = "enqueue" /\ ev'.eligible /\ Len(scan_queue) + 1 > QueueCap) =>
          /\ Len(scan_queue') = QueueCap
          /\ scan_queue'[QueueCap] = ev'.user
          /\ \A i \in 1..(QueueCap - 1) :
                scan_queue'[i] = scan_queue[i + Len(scan_queue) + 1 - QueueCap]]_vars

\* an enqueue into a full queue dropped the oldest username
OverflowDroppedOldest ==
    /\ ev.op = "enqueue" /\ ev.eligible /\ ev.pre_len = QueueCap
    /\ scan_queue[Len(scan_queue)] = ev.user

EnqueueNoOpCases ==
    [][(/\ ev'.op = "enqueue"
        /\ \/ ev'.user \in DOMAIN opted_in_users
           \/ \E i \in 1..Len(scanned_users) :
                 /\ scanned_users[i].username = ev'.user
                 /\ now - scanned_users[i].last_scanned
                       < ACCELERATION_BACKGROUND_REFRESH_DAYS * DAY_SECONDS
           \/ InSeq(ev'.user, scan_queue))
       => UNCHANGED <<scan_queue, opted_in_users, scanned_users, alerted_users>>]_vars

\* an enqueue refused only because of a recent scan record
RecentScanRefused ==
    /\ ev.op = "enqueue" /\ ~ev.eligible
    /\ ev.user \notin DOMAIN opted_in_users
    /\ ~InSeq(ev.user, scan_queue)
    /\ \E i \in 1..Len(scanned_users) : scanned_users[i].username = ev.user

\* C8 as claimed: two enqueues in a row of an eligible username leave the
\* queue exactly one longer than the first call found it.
EnqueueTwiceAddsOne ==
    (ev.op = "enqueue" /\ ev.again) => Len(scan_queue) = ev.first_len + 1

\* C8 as amended: they leave it one longer when the first call found fewer
\* usernames than the bound, and at the bound when it found the queue full; the
\* second call changes nothing.
EnqueueTwiceAddsOneUpToBound ==
    [][(ev'.op = "enqueue" /\ ev'.again) =>
          /\ Len(scan_queue') = Min(ev'.first_len + 1, QueueCap)
          /\ scan_queue' = scan_queue
          /\ ~ev'.eligible]_vars

\* the second of two enqueues in a row, the first into a queue below its bound
EnqueuedTwice ==
    ev.op = "enqueue" /\ ev.again /\ ev.first_len < QueueCap

(***************************************************************************)
(* Properties of the alerts (SpecAlert).                                   *)
(***************************************************************************)
\* C9: no modmail goes out for a username that is in alerted_users; a live
\* "on" for a user below the threshold who is not yet alerted sends exactly one
\* modmail and adds the user, and an "on" for a user who is in alerted_users
\* sends none.
NoNoticeWhileAlerted ==
    [][/\ \A i \in 1..Len(ev'.notices) : ~InSeq(ev'.notices[i].user, alerted_users)
       /\ (/\ ev'.op = "command" /\ ev'.action = "on" /\ ev'.response = "active"
           /\ opted_in_users'[ev'.user].pro_ai_karma < ACCELERATION_MODMAIL_THRESHOLD)
          => IF InSeq(ev'.user, alerted_users)
             THEN ev'.notices = <<>> /\ alerted_users' = alerted_users
             ELSE /\ InSeq(ev'.user, alerted_users')
                  /\ ~dry_run => /\ Len(ev'.notices) = 1
                                 /\ ev'.notices[1].user = ev'.user
                                 /\ ev'.notices[1].score
                                       = opted_in_users'[ev'.user].pro_ai_karma]_vars

\* a live "on" of an alerted user whose karma is below the threshold
ReEnabledWhileAlerted ==
    /\ ev.op = "command" /\ ev.action = "on" /\ ev.response = "active" /\ ~dry_run
    /\ opted_in_users[ev.user].pro_ai_karma = -60
    /\ InSeq(ev.user, alerted_users)
    /\ ev.notices = <<>>

\* C10: a username whose modmail failed is not in alerted_users.
FailedNoticeNotRecorded ==
    \A i \in 1..Len(ev.notices) :
        ~ev.notices[i].ok => ~InSeq(ev.notices[i].user, alerted_users)

\* the notices of the last call that went out for username
NoticesFor(e, username) == {i \in 1..Len(e.notices) : e.notices[i].user = username}

\* the last call ran the aggregator: an "on" or "check" whose lookup did not
\* raise, or a drain
Evaluated(e) ==
    \/ e.op = "drain"
    \/ e.op = "command" /\ e.action \in {"on", "check"} /\ e.response # "sorry"

AlertedWithinBound == Len(alerted_users) <= AlertedCap

(***************************************************************************)
(* Properties of the scan records and of the registry (Spec).              *)
(***************************************************************************)
\* the usernames that have a scan record
ScannedNames(scanned) == {scanned[i].username : i \in 1..Len(scanned)}

\* C13: scanned_users never holds more records than its bound; a drain leaves
\* the records it found and those it wrote, less the evicted ones; it evicts
\* only what exceeds the bound, and every evicted record has a last_scanned no
\* later than that of every retained record.
ScannedBoundedOldestFirst ==
    [][/\ Len(scanned_users') <= ScannedCap
       /\ ev'.op # "drain" => scanned_users' = scanned_users
       /\ ev'.op = "drain" =>
             LET written == Range(ev'.scanned)
                 before == ScannedNames(scanned_users) \cup written
                 last_scanned(u) ==
                     IF u \in written THEN now ELSE LastScanned(scanned_users, u)
                 evicted == before \ ScannedNames(scanned_users')
             IN  /\ ScannedNames(scanned_users') \subseteq before
                 /\ Len(scanned_users') = Min(Cardinality(before), ScannedCap)
                 /\ \A i \in 1..Len(scanned_users') :
                       /\ scanned_users'[i].last_scanned
                             = last_scanned(scanned_users'[i].username)
                       /\ \A u \in evicted :
                             last_scanned(u) <= scanned_users'[i].last_scanned]_vars

\* a drain evicted a record older than the one it wrote
EvictedOlderRecord ==
    /\ ev.op = "drain" /\ ev.scanned # <<>>
    /\ Len(scanned_users) = ScannedCap
    /\ \E r \in ev.evicted : \A i \in 1..Len(scanned_users) :
          r.last_scanned < scanned_users[i].last_scanned

(***************************************************************************)
(* Properties of the registry, the refresh and the commands.               *)
(***************************************************************************)
\* text holds the segment "Acceleration: <tier>"
HasAccel(text, tier) ==
    \E i \in 1..(Len(text) - 2) : SubSeq(text, i, i + 2) = <<"Acceleration:", " ", tier>>

\* record is what the aggregator and the classifier give at time t: its ratio
\* is that of its sums and its tier that of its ratio
Recomputed(record, t) ==
    /\ record.last_calculated = t
    /\ record.enabled
    /\ <<record.pro_ai_karma, record.total_karma>> \in {<<10, 15>>, <<0, 0>>, <<-60, -60>>}
    /\ record.ratio.num * (IF record.total_karma > 0 THEN record.total_karma ELSE 1)
          = (IF record.total_karma > 0 THEN record.pro_ai_karma ELSE 0) * record.ratio.den
    /\ record.tier = (IF record.ratio.num <= 0 THEN "Stationary"
                      ELSE IF record.ratio.num * 100 >= 90 * record.ratio.den THEN "Light-speed"
                      ELSE IF record.ratio.num * 100 >= 70 * record.ratio.den THEN "Hypersonic"
                      ELSE IF record.ratio.num * 100 >= 50 * record.ratio.den THEN "Supersonic"
                      ELSE IF record.ratio.num * 100 >= 30 * record.ratio.den THEN "Speeding"
                      ELSE IF record.ratio.num * 100 >= 15 * record.ratio.den THEN "Cruising"
                      ELSE "Crawling")

\* the label calls of the last call made for username
LabelCallsFor(e, username) == {c \in e.label_calls : c.user = username}

\* now - last_calculated >= the opted-in refresh TTL
DueAt(record, t) == t - record.last_calculated >= 7 * 86400

MembershipFollowsCommands ==
    [][/\ \A u \in Users :
             /\ (u \notin DOMAIN opted_in_users /\ u \in DOMAIN opted_in_users')
                   => (ev'.op = "command" /\ ev'.action = "on" /\ ev'.user = u)
             /\ (u \in DOMAIN opted_in_users /\ u \notin DOMAIN opted_in_users')
                   => (ev'.op = "command" /\ ev'.action = "off" /\ ev'.user = u)
       /\ (ev'.op = "command" /\ ev'.action = "on" /\ ev'.response = "active")
             => ev'.user \in DOMAIN opted_in_users'
       /\ (ev'.op = "command" /\ ev'.action = "off")
             => ev'.user \notin DOMAIN opted_in_users'
       /\ (ev'.op \in {"refresh", "enqueue", "drain", "tick"}
           \/ (ev'.op = "command" /\ ev'.action \in {"check", "none"}))
             => DOMAIN opted_in_users' = DOMAIN opted_in_users
       /\ ev'.op = "refresh" =>
             \A u \in DOMAIN opted_in_users :
                (DueAt(opted_in_users[u], now) /\ u \notin ev'.faulted)
                   => opted_in_users'[u].last_calculated = now]_vars

\* a refresh stamped alice's due record while usernames were queued
RefreshStampedDueRecord ==
    /\ ev.op = "refresh" /\ ev.count = 1
    /\ now # Epoch
    /\ opted_in_users["alice"].last_calculated = now
    /\ scan_queue # <<>>

\* C16: an "on" command runs the aggregator and the classifier and writes the
\* author's record from their result, stamped now, over any record the author
\* had (due for refresh or not), leaves the other records, and in a live run
\* makes one label write for the computed tier, after which the label holds
\* the tier.  The complement: an "on" whose user lookup raised writes nothing
\* and answers "sorry", a failed label write leaves the label.
EnableWritesFreshRecord ==
    [][(ev'.op = "command" /\ ev'.action = "on") =>
          IF ev'.response = "sorry"
          THEN UNCHANGED <<opted_in_users, flair, alerted_users>> /\ ev'.label_calls = {}
          ELSE /\ ev'.response = "active"
               /\ ev'.scanned = <<ev'.user>>
               /\ DOMAIN opted_in_users' = DOMAIN opted_in_users \cup {ev'.user}
               /\ Recomputed(opted_in_users'[ev'.user], now)
               /\ opted_in_users'[ev'.user].pro_ai_karma = ev'.scores[1]
               /\ \A u \in DOMAIN opted_in_users \ {ev'.user} :
                     opted_in_users'[u] = opted_in_users[u]
               /\ \A u \in Users \ {ev'.user} : flair'[u] = flair[u]
               /\ Cardinality(ev'.label_calls) = (IF dry_run THEN 0 ELSE 1)
               /\ \A c \in ev'.label_calls :
                     /\ c.user = ev'.user
                     /\ IF c.ok
                        THEN HasAccel(flair'[c.user], opted_in_users'[c.user].tier)
                        ELSE flair' = flair
               /\ dry_run => flair' = flair]_vars

\* a live "on" of alice, who had a record that was not due, wrote her record
\* again and set her label to its tier, next to bob's record
ReEnabledBeforeDue ==
    /\ ev.op = "command" /\ ev.action = "on" /\ ev.user = "alice" /\ ~dry_run
    /\ ev.had_record /\ now = Epoch
    /\ ev.label_calls = {[user |-> "alice", ok |-> TRUE]}
    /\ opted_in_users["alice"].tier = "Stationary"
    /\ flair["alice"] = <<"Acceleration:", " ", "Stationary">>
    /\ "bob" \in DOMAIN opted_in_users

\* C17: an "off" command leaves the author no record, whether the author had
\* one or not, answers the confirmation, and in a live run makes one label
\* removal for the author, after which the label holds no acceleration segment
\* (a failed write leaves the label); it leaves the other users' records and
\* labels, the scan_queue, scanned_users and alerted_users as they were.
DisableRemovesOnlyAuthor ==
    [][(ev'.op = "command" /\ ev'.action = "off") =>
          /\ ev'.response = "removed"
          /\ DOMAIN opted_in_users' = DOMAIN opted_in_users \ {ev'.user}
          /\ \A u \in DOMAIN opted_in_users' : opted_in_users'[u] = opted_in_users[u]
          /\ UNCHANGED <<scan_queue, scanned_users, alerted_users>>
          /\ ev'.scanned = <<>> /\ ev'.notices = <<>>
          /\ Cardinality(ev'.label_calls) = (IF dry_run THEN 0 ELSE 1)
          /\ \A c \in ev'.label_calls :
                /\ c.user = ev'.user
                /\ IF c.ok
                   THEN \A i \in 1..Len(flair'[c.user]) : flair'[c.user][i] # "Acceleration:"
                   ELSE flair' = flair
          /\ dry_run => flair' = flair
          /\ \A u \in Users \ {ev'.user} : flair'[u] = flair[u]]_vars

\* a live "off" removed alice's record and label while bob had a record and
\* the queue, the scan records and the alerted list held entries
DisabledInPopulatedState ==
    /\ ev.op = "command" /\ ev.action = "off" /\ ev.user = "alice" /\ ~dry_run
    /\ ev.had_record
    /\ ev.label_calls = {[user |-> "alice", ok |-> TRUE]}
    /\ flair["alice"] = <<>>
    /\ DOMAIN opted_in_users = {"bob"}
    /\ scan_queue # <<>> /\ scanned_users # <<>> /\ alerted_users # <<>>

\* C18: a "check" command leaves opted_in_users and every label as they were
\* and makes no label write; its status says the flair is active exactly when
\* the author is a key of opted_in_users (a "check" whose user lookup raised
\* answers "sorry" instead of a status).
InspectLeavesRegistryAndLabels ==
    [][(ev'.op = "command" /\ ev'.action = "check") =>
          /\ opted_in_users' = opted_in_users
          /\ flair' = flair
          /\ ev'.label_calls = {}
          /\ ev'.response \in {"status: active", "status: not active", "sorry"}
          /\ ev'.response = "sorry" <=> ev'.faulted # {}
          /\ ev'.response = "status: active"
                => ev'.user \in DOMAIN opted_in_users
          /\ ev'.response = "status: not active"
                => ev'.user \notin DOMAIN opted_in_users]_vars

\* a "check" of alice, opted in with her label set, answered that her flair is
\* active
InspectedWhileOptedIn ==
    /\ ev.op = "command" /\ ev.action = "check" /\ ev.user = "alice"
    /\ ev.response = "status: active"
    /\ "alice" \in DOMAIN opted_in_users
    /\ HasAccel(flair["alice"], opted_in_users["alice"].tier)

\* C19: a command classified as none changes nothing of the state, runs no
\* aggregator, makes no label write, sends no modmail and returns no response.
NoneIsNoOp ==
    [][(ev'.op = "command" /\ ev'.action = "none") =>
          /\ UNCHANGED <<opted_in_users, scanned_users, alerted_users, scan_queue, flair>>
          /\ ev'.scanned = <<>> /\ ev'.scores = <<>>
          /\ ev'.label_calls = {}
          /\ ev'.notices = <<>>
          /\ ev'.response = ""]_vars

\* a comment of alice, opted in, classified as none while usernames were
\* queued and scanned
NoneInPopulatedState ==
    /\ ev.op = "command" /\ ev.action = "none" /\ ev.user = "alice"
    /\ "alice" \in DOMAIN opted_in_users
    /\ scan_queue # <<>> /\ scanned_users # <<>>

\* the scan record of username
RecordOf(scanned, username) ==
    CHOOSE r \in Range(scanned) : r.username = username

\* C20 as claimed, for the scans the state still shows (a record in
\* scanned_users, or one the drain that just ran evicted): a drain writes a
\* record stamped now for each user it scans, none of them opted in; an
\* enqueue of a user scanned at t is a no-op at any time before t + TTL.
ScannedUserWaitsTtl ==
    [][ev'.op = "enqueue" =>
          \A r \in Range(scanned_users) \cup (IF ev.op = "drain" THEN ev.evicted ELSE {}) :
             (r.username = ev'.user /\ now < r.last_scanned + 30 * 86400)
                => scan_queue' = scan_queue]_vars

\* C20 as amended: a drain writes a record stamped now for each user it scans,
\* none of them opted in; while that record is in scanned_users an enqueue of
\* the user before last_scanned + TTL is a no-op; an enqueue of a user who is
\* not opted in and not queued, and whose record is one TTL old or older, or
\* gone (evicted), or was never written, puts the user at the queue's tail.
ScannedUserWaitsTtlWhileRecorded ==
    [][/\ ev'.op = "drain" =>
             \A i \in 1..Len(ev'.scanned) :
                /\ ev'.scanned[i] \notin DOMAIN opted_in_users
                /\ ev'.scanned[i] \in ScannedNames(scanned_users')
                /\ RecordOf(scanned_users', ev'.scanned[i]).last_scanned = now
                /\ RecordOf(scanned_users', ev'.scanned[i]).pro_ai_karma = ev'.scores[i]
       /\ ev'.op = "enqueue" =>
             IF /\ ev'.user \in ScannedNames(scanned_users)
                /\ now < RecordOf(scanned_users, ev'.user).last_scanned + 30 * 86400
             THEN scan_queue' = scan_queue /\ ~ev'.eligible
             ELSE (ev'.user \notin DOMAIN opted_in_users /\ ~InSeq(ev'.user, scan_queue))
                     => /\ ev'.eligible
                        /\ scan_queue' # <<>>
                        /\ scan_queue'[Len(scan_queue')] = ev'.user]_vars

\* an enqueue put a user back in the queue whose scan record is exactly one
\* background TTL old
RequeuedAtTtl ==
    /\ ev.op = "enqueue" /\ ev.eligible
    /\ ev.user \in ScannedNames(scanned_users)
    /\ now = RecordOf(scanned_users, ev.user).last_scanned + 30 * 86400
    /\ InSeq(ev.user, scan_queue)

(***************************************************************************)
(* Properties of opting in against the background scan, and of the drain.  *)
(***************************************************************************)
\* C21: an "on" command leaves scanned_users and scan_queue as they were, so
\* the author's scan record and queue entry survive; an enqueue of a username
\* that is a key of opted_in_users changes nothing.
EnableKeepsScanState ==
    [][/\ (ev'.op = "command" /\ ev'.action = "on")
             => UNCHANGED <<scanned_users, scan_queue>>
       /\ (ev'.op = "enqueue" /\ ev'.user \in DOMAIN opted_in_users)
             => /\ ~ev'.eligible
                /\ UNCHANGED <<scan_queue, scanned_users, opted_in_users, alerted_users,
                               flair>>]_vars

\* alice opted in while she was queued and had a scan record
EnabledWhileQueuedAndScanned ==
    /\ ev.op = "command" /\ ev.action = "on" /\ ev.user = "alice"
    /\ ev.response = "active"
    /\ "alice" \in DOMAIN opted_in_users
    /\ InSeq("alice", scan_queue)
    /\ "alice" \in ScannedNames(scanned_users)

\* C22 as claimed: a drain that pops a key of opted_in_users runs no
\* aggregator for it, writes or refreshes no scan record of it, sends no modmail
\* for it and leaves its membership of alerted_users as it was.
DrainSkipsOptedIn ==
    [][ev'.op = "drain" =>
          \A u \in Range(ev'.popped) \cap DOMAIN opted_in_users :
             /\ ~InSeq(u, ev'.scanned)
             /\ NoticesFor(ev', u) = {}
             /\ InSeq(u, alerted_users') <=> InSeq(u, alerted_users)]_vars

\* C22 as amended: a drain that pops a key of opted_in_users runs no
\* aggregator for it, writes or refreshes no scan record of it (a record it has
\* stays as it is or is evicted), sends no modmail for it and does not add it
\* to alerted_users; the trim at the end of the call may still drop it from
\* alerted_users.
DrainSkipsOptedInUpToTrim ==
    [][ev'.op = "drain" =>
          \A u \in Range(ev'.popped) \cap DOMAIN opted_in_users :
             /\ ~InSeq(u, ev'.scanned)
             /\ u \notin ev'.faulted /\ u \notin ev'.agg_faulted
             /\ u \in ScannedNames(scanned_users')
                   => /\ u \in ScannedNames(scanned_users)
                      /\ RecordOf(scanned_users', u) = RecordOf(scanned_users, u)
             /\ NoticesFor(ev', u) = {}
             /\ InSeq(u, alerted_users') => InSeq(u, alerted_users)
             /\ ~InSeq(u, scan_queue')]_vars

\* a drain popped alice, opted in and alerted, skipped her and scanned the next
\* username
DrainSkippedOptedInUser ==
    /\ ev.op = "drain"
    /\ Len(ev.popped) = 2 /\ ev.popped[1] = "alice"
    /\ "alice" \in DOMAIN opted_in_users
    /\ ev.scanned = <<ev.popped[2]>>
    /\ InSeq("alice", alerted_users)

\* C23: a drain makes no label write, leaves every label as it was and leaves
\* opted_in_users as it was.
DrainTouchesNoLabel ==
    [][ev'.op = "drain" =>
          /\ ev'.label_calls = {}
          /\ flair' = flair
          /\ opted_in_users' = opted_in_users]_vars

\* a drain scanned a user while alice was opted in with her label set
DrainedBesideLabels ==
    /\ ev.op = "drain" /\ ev.scanned # <<>>
    /\ "alice" \in DOMAIN opted_in_users
    /\ HasAccel(flair["alice"], opted_in_users["alice"].tier)

DrainedBesideFaults ==
    /\ ev.op = "drain"
    /\ Len(ev.popped) = 2 /\ ev.popped[1] \in ev.faulted
    /\ ev.scanned = <<ev.popped[2]>>
    /\ \E i \in 1..Len(ev.notices) : ~ev.notices[i].ok

\* C25: a due record whose history listing raised during a refresh is
\* processed once in that cycle (at most one label write) and is still due
\* when the cycle ends, so that the next cycle processes it again.
RefreshFaultStaysDue ==
    [][ev'.op = "refresh" =>
          \A u \in ev'.agg_faulted :
             /\ DueAt(opted_in_users[u], now)
             /\ Cardinality(LabelCallsFor(ev', u)) <= 1
             /\ DueAt(opted_in_users'[u], now')]_vars

\* C26: a label write that fails changes nothing but the label's staying as it
\* was.  The "on" that made it still writes the author's record from the
\* computed score and answers "active"; the "off" still deletes the author's
\* key and answers "removed"; the refresh still rewrites the user's record,
\* stamps it now and counts it.  The failed write is not a fault of the call:
\* the call returns its result.
LabelFaultKeepsRegistry ==
    [][\A c \in ev'.label_calls :
          ~c.ok =>
             /\ flair'[c.user] = flair[c.user]
             /\ c.user \notin ev'.faulted
             /\ ev'.op \in {"command", "refresh"}
             /\ ev'.op = "command" =>
                   /\ ev'.user = c.user /\ flair' = flair
                   /\ ev'.action \in {"on", "off"}
                   /\ ev'.action = "on" =>
                         /\ ev'.response = "active"
                         /\ c.user \in DOMAIN opted_in_users'
                         /\ Recomputed(opted_in_users'[c.user], now)
                         /\ opted_in_users'[c.user].pro_ai_karma = ev'.scores[1]
                   /\ ev'.action = "off" =>
                         /\ ev'.response = "removed"
                         /\ DOMAIN opted_in_users' = DOMAIN opted_in_users \ {c.user}
                   /\ \A u \in DOMAIN opted_in_users' \ {c.user} :
                         u \in DOMAIN opted_in_users /\ opted_in_users'[u] = opted_in_users[u]
             /\ ev'.op = "refresh" =>
                   /\ DueAt(opted_in_users[c.user], now)
                   /\ Recomputed(opted_in_users'[c.user], now)
                   /\ ev'.count = Cardinality({u \in DOMAIN opted_in_users :
                                                 DueAt(opted_in_users[u], now)} \ ev'.faulted)]_vars

\* alice's "off" deleted her record while its label write failed: her label
\* still shows the tier
DisabledWithLabelLeft ==
    /\ ev.op = "command" /\ ev.action = "off" /\ ev.user = "alice"
    /\ ev.had_record /\ "alice" \notin DOMAIN opted_in_users
    /\ \E c \in ev.label_calls : ~c.ok
    /\ \E i \in 1..Len(flair["alice"]) : flair["alice"][i] = "Acceleration:"

(***************************************************************************)
(* Properties of the ratio and of the tier classifier (SpecTier).          *)
(***************************************************************************)
\* the last call was an "on" or a "check" that computed a score
Scored(e) == e.op = "command" /\ e.action \in {"on", "check"} /\ e.response # "sorry"

\* the (ratio, tier) pairs the state shows: every record's, and those the
\* last "on" or "check" computed
Classified ==
    {[ratio |-> opted_in_users[u].ratio, tier |-> opted_in_users[u].tier] :
        u \in DOMAIN opted_in_users}
    \cup (IF Scored(ev) THEN {[ratio |-> ev.ratio, tier |-> ev.tier]} ELSE {})

\* a/b < c/d for positive denominators
RatioLess(r1, r2) == r1.num * r2.den < r2.num * r1.den

\* zero-tier 0, then the table's tiers in ascending threshold order
TierRank(tier) ==
    IF tier = ACCELERATION_ZERO_TIER THEN 0
    ELSE LET i == CHOOSE j \in 1..Len(ACCELERATION_TIERS) : ACCELERATION_TIERS[j][2] = tier
         IN  Len(ACCELERATION_TIERS) - i + 1

\* C27: every ratio computed by "on", "check" or refresh, and every ratio in a
\* record, is pro_ai_karma / total_karma when total_karma > 0, else 0, and
\* lies in [0, 1].
RatioWithinUnitInterval ==
    /\ \A c \in Classified : c.ratio.den > 0 /\ 0 <= c.ratio.num /\ c.ratio.num <= c.ratio.den
    /\ \A u \in DOMAIN opted_in_users :
          opted_in_users[u].ratio =
             (IF opted_in_users[u].total_karma > 0
              THEN [num |-> opted_in_users[u].pro_ai_karma,
                    den |-> opted_in_users[u].total_karma]
              ELSE [num |-> 0, den |-> 1])

\* C28: of any two classified ratios the smaller one's tier does not rank
\* higher (zero-tier lowest, then the table's tiers in ascending threshold
\* order), and every ratio <= 0 has the zero-tier.
TierIsMonotonic ==
    \A c1, c2 \in Classified :
       /\ RatioLess(c1.ratio, c2.ratio) => TierRank(c1.tier) <= TierRank(c2.tier)
       /\ c1.ratio.num <= 0 => c1.tier = ACCELERATION_ZERO_TIER

\* alice's record holds a negative ratio and the zero-tier, and her "check"
\* computed a ratio under the lowest threshold, tier "Crawling"
CheckedAboveNegativeRecord ==
    /\ Scored(ev) /\ ev.action = "check"
    /\ "alice" \in DOMAIN opted_in_users
    /\ opted_in_users["alice"].ratio.num < 0
    /\ opted_in_users["alice"].tier = ACCELERATION_ZERO_TIER
    /\ ev.ratio.num > 0 /\ ev.ratio.num * 100 < ev.ratio.den
    /\ ev.tier = "Crawling"

\* C29: a classified ratio > 0 that reaches a threshold has the tier of the
\* first table entry whose threshold is <= the ratio, equality included; an
\* "on" or "check" of 10 of 15 karma gives the tier of the 0.50 entry.
FirstReachedThresholdWins ==
    /\ \A c \in Classified :
          (c.ratio.num > 0 /\ \E i \in 1..Len(ACCELERATION_TIERS) :
                                 c.ratio.num * 100 >= ACCELERATION_TIERS[i][1] * c.ratio.den)
             => \E i \in 1..Len(ACCELERATION_TIERS) :
                   /\ c.tier = ACCELERATION_TIERS[i][2]
                   /\ c.ratio.num * 100 >= ACCELERATION_TIERS[i][1] * c.ratio.den
                   /\ \A j \in 1..(i - 1) :
                         c.ratio.num * 100 < ACCELERATION_TIERS[j][1] * c.ratio.den
    /\ (Scored(ev) /\ ev.scores = <<10>> /\ ev.totals = <<15>>)
          => ev.ratio = [num |-> 10, den |-> 15] /\ ev.tier = "Supersonic"

\* a "check" computed a ratio exactly on the 0.90 threshold while the record
\* holds one exactly on the 0.15 threshold
CheckedOnThreshold ==
    /\ Scored(ev) /\ ev.scores = <<90>> /\ ev.totals = <<100>>
    /\ ev.tier = "Light-speed"
    /\ "alice" \in DOMAIN opted_in_users
    /\ opted_in_users["alice"].pro_ai_karma = 15
    /\ opted_in_users["alice"].total_karma = 100
    /\ opted_in_users["alice"].tier = "Cruising"

\* C30: a total_karma that is not positive gives ratio 0 and the zero-tier in
\* "on", "check" and refresh, whatever pro_ai_karma is.
NonPositiveTotalIsZeroTier ==
    /\ \A u \in DOMAIN opted_in_users :
          opted_in_users[u].total_karma <= 0
             => /\ opted_in_users[u].ratio = [num |-> 0, den |-> 1]
                /\ opted_in_users[u].tier = ACCELERATION_ZERO_TIER
    /\ (Scored(ev) /\ ev.totals[1] <= 0)
          => ev.ratio = [num |-> 0, den |-> 1] /\ ev.tier = ACCELERATION_ZERO_TIER

\* a refresh wrote a record with a negative pro_ai_karma on a negative total
\* after a "check" or "on" had computed a positive one on a total of 0
RefreshedOnNegativeTotal ==
    /\ ev.op = "refresh" /\ ev.count = 1
    /\ opted_in_users["alice"].last_calculated = now
    /\ opted_in_users["alice"].pro_ai_karma < 0
    /\ opted_in_users["alice"].total_karma < 0

(***************************************************************************)
(* Properties of the aggregator (SpecAggregator).                          *)
(***************************************************************************)
\* the items of a stream that a scan with the given limit reads
ScannedItems(stream, scan_limit) == SubSeq(stream, 1, Min(Len(stream), scan_limit))

\* the provider raised on none of the items
NoFault(items) == \A i \in 1..Len(items) : items[i].ok

RECURSIVE SumScores(_)
SumScores(items) ==
    IF items = <<>> THEN 0 ELSE Head(items).score + SumScores(Tail(items))

\* the community names of the model that are a configured topic community
\* up to the case of their letters
MatchesTopic(item) ==
    item.sub \in {"accelerate", "ACCELERATE", "ProAI", "TheMachineGod", "DefendingAIArt",
                  "aiArt", "aivideos"}

\* C31: when no listing raises, the aggregator returns as total_karma the sum
\* of the scores of the first scan_limit items of the comments and of the
\* first scan_limit items of the submissions, and as pro_ai_karma the sum of
\* the scores of those of them whose community is a topic community, whatever
\* the case of its letters.
AggregatorSumsScannedItems ==
    ev.op = "aggregate" =>
       LET c == ScannedItems(ev.history.comments, ev.scan_limit)
           s == ScannedItems(ev.history.submissions, ev.scan_limit)
       IN  NoFault(c) /\ NoFault(s) =>
              /\ ev.totals = <<SumScores(c) + SumScores(s)>>
              /\ ev.scores = <<SumScores(SelectSeq(c, MatchesTopic))
                               + SumScores(SelectSeq(s, MatchesTopic))>>
              /\ ev.agg_faulted = {} /\ ev.faulted = {}

\* a call with scan_limit 1 on two comments and two submissions read the first
\* of each: a comment in ACCELERATE and a submission elsewhere
AggregatedUnderLimit ==
    /\ ev.op = "aggregate" /\ ev.scan_limit = 1
    /\ ev.history.comments = <<Item("ACCELERATE", 5), Item("SomeOtherSub", 7)>>
    /\ ev.history.submissions = <<Item("SomeOtherSub", 7), Item("ACCELERATE", 5)>>
    /\ ev.scores = <<5>> /\ ev.totals = <<12>>

\* C32: when a listing raises on one of the items the scan reads, in the
\* comments or in the submissions and after any number of items, the
\* aggregator returns (0, 0) and raises nothing to its caller.
AggregatorFaultGivesZero ==
    ev.op = "aggregate" =>
       LET c == ScannedItems(ev.history.comments, ev.scan_limit)
           s == ScannedItems(ev.history.submissions, ev.scan_limit)
       IN  ~(NoFault(c) /\ NoFault(s)) =>
              /\ ev.scores = <<0>> /\ ev.totals = <<0>>
              /\ ev.agg_faulted = {ev.user} /\ ev.faulted = {}

\* a call whose submissions listing raised on its second item, after two
\* comments and one submission had been summed
AggregatedIntoFault ==
    /\ ev.op = "aggregate" /\ ev.scan_limit = 2
    /\ ev.history.comments = <<Item("ACCELERATE", 5), Item("SomeOtherSub", 7)>>
    /\ ev.history.submissions = <<Item("ACCELERATE", 5), FaultItem>>
    /\ ev.scores = <<0>> /\ ev.totals = <<0>>

(***************************************************************************)
(* Properties of the flair text (SpecFlair).                               *)
(***************************************************************************)
\* the last call was update_user_flair with the given action and its write
\* to the subreddit succeeded
FlairCall(e, action) ==
    /\ e.op = "flair" /\ e.action = action
    /\ \A c \in e.label_calls : c.ok

\* C33: setting tier T on a user's flair and then setting T again leaves the
\* text the first call wrote, whatever text the first call found.
SetTierIsIdempotent ==
    [][(/\ FlairCall(ev, "set") /\ FlairCall(ev', "set")
        /\ ev'.user = ev.user /\ ev'.tier = ev.tier)
          => flair'[ev.user] = flair[ev.user]]_vars


\* C34: setting a tier on a flair text and then removing leaves the text's
\* other segments, in their order and with no pipe at either end: nothing of
\* "" and of "Acceleration: Y" (the flair is cleared), "X" of "X" and of
\* "X | Acceleration: Y".
SetThenRemoveLeavesOtherSegments ==
    [][(/\ FlairCall(ev, "set") /\ FlairCall(ev', "remove") /\ ev'.user = ev.user)
          => /\ ev.current_flair \in {<<>>, <<"Acceleration:", " ", "Crawling">>}
                => flair'[ev.user] = <<>>
             /\ ev.current_flair \in {<<"X">>,
                                      <<"X", " ", "|", " ", "Acceleration:", " ", "Crawling">>}
                => flair'[ev.user] = <<"X">>
             /\ ev.current_flair = <<"X", " ", "|", " ", "Z">>
                => flair'[ev.user] = ev.current_flair]_vars

\* a remove took the segment off "X | Acceleration: Supersonic", the text a
\* set had written, and left "X"
RemovedAfterSet ==
    /\ FlairCall(ev, "remove")
    /\ ev.current_flair = <<"X", " ", "|", " ", "Acceleration:", " ", "Supersonic">>
    /\ flair["alice"] = <<"X">>


(***************************************************************************)
(* Properties that hold across the handlers.                               *)
(***************************************************************************)
\* C35: every username a call adds to alerted_users is one for which that
\* call sent a modmail that went out, in a dry run as in a live run; the
\* usernames already there stay those of earlier modmails.
AlertedOnlyAfterNoticeSent ==
    [][\A u \in Range(alerted_users') \ Range(alerted_users) :
          \E i \in 1..Len(ev'.notices) : ev'.notices[i].user = u /\ ev'.notices[i].ok]_vars


\* C36: in a dry run a command, a refresh and a drain make no flair write and
\* send no modmail, and every flair text stays as it was.
DryRunWritesNothingOutside ==
    [][(dry_run /\ ev'.op \in {"command", "refresh", "drain"})
          => /\ ev'.label_calls = {}
             /\ ev'.notices = <<>>
             /\ flair' = flair]_vars

\* a dry-run refresh rewrote alice's record, below the modmail threshold and
\* alerted, next to a scan record: no flair text was ever written
DryRunDidItsWork ==
    /\ dry_run
    /\ ev.op = "refresh" /\ ev.count = 1
    /\ opted_in_users["alice"].pro_ai_karma < ACCELERATION_MODMAIL_THRESHOLD
    /\ InSeq("alice", alerted_users)
    /\ scanned_users # <<>>
    /\ \A u \in Users : flair[u] = <<>>


\* the tier of the table for a ratio num/den, den > 0
TierOfRatio(ratio) ==
    IF ratio.num <= 0 THEN "Stationary"
    ELSE IF ratio.num * 100 >= 90 * ratio.den THEN "Light-speed"
    ELSE IF ratio.num * 100 >= 70 * ratio.den THEN "Hypersonic"
    ELSE IF ratio.num * 100 >= 50 * ratio.den THEN "Supersonic"
    ELSE IF ratio.num * 100 >= 30 * ratio.den THEN "Speeding"
    ELSE IF ratio.num * 100 >= 15 * ratio.den THEN "Cruising"
    ELSE "Crawling"

\* C37: every record of opted_in_users has enabled true, as ratio
\* pro_ai_karma / total_karma when total_karma > 0 and 0 otherwise, and as
\* tier the classifier's tier of that ratio, whatever commands, refreshes,
\* enqueues and drains have run.
RecordsAreConsistent ==
    \A u \in DOMAIN opted_in_users :
       LET r == opted_in_users[u]
       IN  /\ r.enabled
           /\ r.ratio = (IF r.total_karma > 0
                         THEN [num |-> r.pro_ai_karma, den |-> r.total_karma]
                         ELSE [num |-> 0, den |-> 1])
           /\ r.tier = TierOfRatio(r.ratio)

\* alice's record, rewritten by a refresh or a second "on" after the first
\* cycle, holds 10 of 15 karma; she has just sent a "check", bob has a scan
\* record and carol is queued
CheckedAmongAllOperations ==
    /\ ev.op = "command" /\ ev.action = "check" /\ ev.user = "alice"
    /\ "alice" \in DOMAIN opted_in_users
    /\ opted_in_users["alice"].last_calculated > Epoch
    /\ opted_in_users["alice"].total_karma = 15
    /\ opted_in_users["alice"].tier = "Supersonic"
    /\ "bob" \in ScannedNames(scanned_users)
    /\ scan_queue = <<"carol">>


\* the drain that just ran popped username and scanned it, or (unless
\* scanned_only) its lookup raised
PoppedAnd(e, username, scanned_only) ==
    /\ e.op = "drain"
    /\ InSeq(username, e.popped)
    /\ InSeq(username, e.scanned) \/ (~scanned_only /\ username \in e.faulted)

\* C38 as claimed: a drain on a non-empty queue pops at least one username;
\* once no more usernames are enqueued the drain cycles empty the queue,
\* usernames leave it only by being popped, and every popped user that is
\* not opted in is scanned.
DrainScansEveryQueuedUser ==
    /\ [][(ev'.op = "drain" /\ scan_queue # <<>>)
             => /\ Len(ev'.popped) >= 1
                /\ Len(scan_queue') < Len(scan_queue)
                /\ Range(scan_queue) \ Range(scan_queue') \subseteq Range(ev'.popped)
                /\ \A u \in Range(ev'.popped) \ DOMAIN opted_in_users :
                      PoppedAnd(ev', u, TRUE)]_vars
    /\ ~EnqueuesOpen ~> (scan_queue = <<>>)

\* C38, with the lookup that raises: a drain on a non-empty queue pops at
\* least one username; once no more usernames are enqueued the drain cycles
\* empty the queue, usernames leave it only by being popped, and every popped
\* user that is not opted in is scanned unless its lookup raised.
DrainEmptiesQueue ==
    /\ [][(ev'.op = "drain" /\ scan_queue # <<>>)
             => /\ Len(ev'.popped) >= 1
                /\ Len(scan_queue') < Len(scan_queue)
                /\ Range(scan_queue) \ Range(scan_queue') \subseteq Range(ev'.popped)
                /\ \A u \in Range(ev'.popped) \ DOMAIN opted_in_users :
                      PoppedAnd(ev', u, FALSE)]_vars
    /\ ~EnqueuesOpen ~> (scan_queue = <<>>)

\* the second drain cycle found one username left, scanned it and left the
\* queue empty
DrainedToEmpty ==
    /\ ev.op = "drain" /\ scan_queue = <<>>
    /\ Len(ev.popped) = 1 /\ ev.scanned = ev.popped
    /\ Len(scanned_users) >= 1
    /\ ev.scanned[1] \notin {scanned_users[i].username : i \in 1..Len(scanned_users)}
          \/ Len(scanned_users) = ScannedCap


\* C39: a classified ratio above 0 and under the lowest threshold of the
\* table has the tier of the table's last entry, not the zero-tier.
UnderLowestThresholdIsLastTier ==
    \A c \in Classified :
       (c.ratio.num > 0
        /\ c.ratio.num * 100 < ACCELERATION_TIERS[Len(ACCELERATION_TIERS)][1] * c.ratio.den)
          => /\ c.tier = ACCELERATION_TIERS[Len(ACCELERATION_TIERS)][2]
             /\ c.tier # ACCELERATION_ZERO_TIER

\* a refresh left alice a record of 1 of 200 karma, tier "Crawling"
RefreshedUnderLowestThreshold ==
    /\ ev.op = "refresh" /\ ev.count = 1
    /\ opted_in_users["alice"].last_calculated = now
    /\ opted_in_users["alice"].pro_ai_karma = 1
    /\ opted_in_users["alice"].total_karma = 200
    /\ opted_in_users["alice"].tier = "Crawling"

=============================================================================
